---- MODULE Spec2Model ----
(***************************************************************************)
(* Model of the ADS112C04 driver class TurboHAT (src/src/turbo_hat.py).    *)
(*                                                                         *)
(* The state is the driver instance (its stored selectors, the bus handle, *)
(* the two GPIO lines), the frame of the method being executed (pc, chan,  *)
(* counter, reggie, adc_data) and what an observer attached to the bus and *)
(* to the GPIO library sees of the current or last call (trace, polls,     *)
(* stdout, ret).  Every statement that talks to the bus or to the GPIO     *)
(* library is one action, so that the order of the transactions of a call  *)
(* is visible.                                                             *)
(*                                                                         *)
(* Environment: a bus call on an open handle either completes or raises    *)
(* (NACK, device absent); a bus call on a closed handle raises.  GPIO      *)
(* calls complete.  gpio.input returns whatever level the DRDY' line has.  *)
(***************************************************************************)
EXTENDS Integers, Sequences, FiniteSets, TLC

\* ------------------------------------------------------------------------
\* Program constants (turbo_hat.py, class TurboHAT)

\* Start or restart conversion (0x08)
CMD_START_SYNC == 8
\* Load ADC output with data (0x10)
CMD_RDATA == 16
\* Read a register; address in bits 3,2 (0x20)
CMD_RREG == 32
\* Write register; address in bits 3,2 (0x40)
CMD_WREG == 64

REG_CFG_0 == 0
REG_CFG_1 == 1

\* Reference voltage selectors: 0x00, 0x02, 0x04
VREF_INT_2048 == 0
VREF_EXT == 2
VREF_SUP == 4

\* Data rate selectors: 0x00, 0x20, ..., 0xC0
DR_20HZ == 0
DR_45HZ == 32
DR_90HZ == 64
DR_175HZ == 96
DR_330HZ == 128
DR_600HZ == 160
DR_1000HZ == 192

\* Default constructor arguments: i2c_address=0x40, reset_pin=12, drdy_pin=16
I2C_ADDRESS == 64
RESET_PIN == 12
DRDY_PIN == 16

\* The bound of the poll counter in read_channel: "if counter > 100000"
POLL_LIMIT == 100000

\* Number of registers dumped by show_ADC_registers: "range (4)"
NUM_REGS == 4

\* ------------------------------------------------------------------------
\* Bounds of the model

\* read_channel is called with chan in -ChanSpan .. ChanSpan under SpecMux
ChanSpan == 40

RefVoltages == {VREF_INT_2048, VREF_EXT, VREF_SUP}
DataRates == {DR_20HZ, DR_45HZ, DR_90HZ, DR_175HZ, DR_330HZ, DR_600HZ, DR_1000HZ}

\* Channel arguments of read_channel under Spec
Channels == 0 .. 3
\* Channel arguments of read_channel under SpecMux
WideChannels == (0 - ChanSpan) .. ChanSpan

\* Raw words the bus may return from read_word_data: 0x1234, 0x0080
RawWords == {4660, 128}
\* Bytes the bus may return from read_byte_data
RegBytes == {1, 2, 3, 4}

\* ------------------------------------------------------------------------
\* Python's integer operators, on two's-complement integers of any size

RECURSIVE BitAnd(_, _)
BitAnd(a, b) ==
    IF a = 0 \/ b = 0 THEN 0
    ELSE IF a = -1 THEN b
    ELSE IF b = -1 THEN a
    ELSE (a % 2) * (b % 2) + 2 * BitAnd(a \div 2, b \div 2)

RECURSIVE BitOr(_, _)
BitOr(a, b) ==
    IF a = 0 THEN b
    ELSE IF b = 0 THEN a
    ELSE IF a = -1 \/ b = -1 THEN -1
    ELSE (IF a % 2 = 1 \/ b % 2 = 1 THEN 1 ELSE 0) + 2 * BitOr(a \div 2, b \div 2)

ShiftLeft(a, n) == a * (2 ^ n)

ShiftRight(a, n) == a \div (2 ^ n)

\* ------------------------------------------------------------------------
\* State

VARIABLES
    pc,             \* the statement the driver executes next
    call,           \* the method being executed, or the last one executed
    ref_voltage,    \* self._ref_voltage
    data_rate,      \* self._data_rate
    bus_open,       \* self._i2c_bus is open
    gpio_mode,      \* RPi.GPIO pin numbering mode
    reset_line,     \* the RESET' pin: direction and driven level
    drdy_line,      \* the DRDY' pin: direction and pull
    chan,           \* read_channel: the argument
    counter,        \* read_channel: the local counter
    adc_data,       \* read_channel: the local adc_data
    reggie,         \* show_ADC_registers: the loop variable
    trace,          \* bus and GPIO calls of the current call, in order, polls excepted
    polls,          \* number of gpio.input calls of the current call
    stdout,         \* what show_ADC_registers printed: <<register, byte>> pairs
    ret,            \* how the last call ended
    main_pc,        \* turboplot.py main: the statement executed next
    event,          \* main: the event window.read returned last
    now_time,       \* main: seconds since start_time
    next_data_time, \* main: time to take the next data point
    times,          \* main: the list of sample times
    plot_data,      \* main: the lists of samples, data[subplot][chan]
    tick_pos,       \* main: place in the two loops of a tick, 2 * subplot + chan
    tick_chans,     \* the channels read so far in the current or last tick
    cleanups        \* number of turbo.clean_up () calls main has made

\* The state of the plotting program
plot == <<main_pc, event, now_time, next_data_time, times, plot_data, tick_pos,
          tick_chans, cleanups>>

vars == <<pc, call, ref_voltage, data_rate, bus_open, gpio_mode, reset_line,
          drdy_line, chan, counter, adc_data, reggie, trace, polls, stdout, ret,
          plot>>

\* The instance fields and the hardware state, which a call's frame is not
frame == <<chan, counter, adc_data, reggie>>

\* ------------------------------------------------------------------------
\* What is seen of a call

BusWrite(cmd, val, ok) ==
    [op |-> "write_byte_data", addr |-> I2C_ADDRESS, cmd |-> cmd, val |-> val, ok |-> ok]

BusCommand(cmd, ok) ==
    [op |-> "write_byte", addr |-> I2C_ADDRESS, cmd |-> cmd, val |-> 0, ok |-> ok]

BusReadByte(cmd, data, ok) ==
    [op |-> "read_byte_data", addr |-> I2C_ADDRESS, cmd |-> cmd, val |-> data, ok |-> ok]

BusReadWord(cmd, data, ok) ==
    [op |-> "read_word_data", addr |-> I2C_ADDRESS, cmd |-> cmd, val |-> data, ok |-> ok]

BusClose == [op |-> "close"]

GpioSetup(pin, dir, pull) == [op |-> "gpio.setup", pin |-> pin, dir |-> dir, pull |-> pull]

GpioOutput(pin, level) == [op |-> "gpio.output", pin |-> pin, level |-> level]

GpioCleanup == [op |-> "gpio.cleanup"]

BusTransactions == {"write_byte_data", "write_byte", "read_byte_data", "read_word_data"}

IsBusTransaction(e) == e.op \in BusTransactions

\* The bus transactions of a trace, in order
BusOf(t) == SelectSeq(t, IsBusTransaction)

RetNone == [kind |-> "none", value |-> 0]
RetOk == [kind |-> "ok", value |-> 0]
RetValue(v) == [kind |-> "value", value |-> v]
RetTimeout == [kind |-> "Timeout", value |-> 0]
RetBusError == [kind |-> "BusError", value |-> 0]

\* A pin no call has configured, and a pin gpio.cleanup has set back to input
LineUnset == [dir |-> "unset", level |-> "undef", pull |-> "off"]
LineReleased == [dir |-> "in", level |-> "undef", pull |-> "off"]

\* The outcomes of a bus call: it completes (TRUE) or raises (FALSE)
BusOutcomes == IF bus_open THEN {TRUE, FALSE} ELSE {FALSE}

\* ------------------------------------------------------------------------
\* __init__

\* The driver is used on its own: the plotting program is not running
NoProgram ==
    /\ main_pc = "none"
    /\ event = "none"
    /\ now_time = 0
    /\ next_data_time = 0
    /\ times = << >>
    /\ plot_data = << << << >>, << >> >>, << << >>, << >> >> >>
    /\ tick_pos = 0
    /\ tick_chans = << >>
    /\ cleanups = 0

\* The caller has opened the bus and calls TurboHAT (i2c_bus, ..., ref_voltage=ref,
\* data_rate=rate) with ref in refs and rate in rates
Fresh(refs, rates) ==
    /\ NoProgram
    /\ pc = "init_setup_reset"
    /\ call = "init"
    /\ ref_voltage \in refs
    /\ data_rate \in rates
    /\ bus_open = TRUE
    /\ gpio_mode = "unset"
    /\ reset_line = LineUnset
    /\ drdy_line = LineUnset
    /\ chan = 0
    /\ counter = 0
    /\ adc_data = 0
    /\ reggie = 0
    /\ trace = << >>
    /\ polls = 0
    /\ stdout = << >>
    /\ ret = RetNone

\* Both callers (main of turbo_hat.py and of turboplot.py) leave ref_voltage and
\* data_rate at their defaults, VREF_SUP and DR_20HZ
Init == Fresh({VREF_SUP}, {DR_20HZ})

\* gpio.setmode (gpio.BCM); gpio.setup (self._reset_pin, gpio.OUT)
init_SetupReset ==
    /\ pc = "init_setup_reset"
    /\ gpio_mode' = "BCM"
    /\ reset_line' = [dir |-> "out", level |-> "undef", pull |-> "off"]
    /\ trace' = Append(trace, GpioSetup(RESET_PIN, "OUT", "PUD_OFF"))
    /\ pc' = "init_setup_drdy"
    /\ UNCHANGED <<plot, call, ref_voltage, data_rate, bus_open, drdy_line, frame,
                   polls, stdout, ret>>

\* gpio.setup (self._drdy_pin, gpio.IN, pull_up_down=gpio.PUD_UP)
init_SetupDrdy ==
    /\ pc = "init_setup_drdy"
    /\ drdy_line' = [dir |-> "in", level |-> "undef", pull |-> "up"]
    /\ trace' = Append(trace, GpioSetup(DRDY_PIN, "IN", "PUD_UP"))
    /\ pc' = "init_output"
    /\ UNCHANGED <<plot, call, ref_voltage, data_rate, bus_open, gpio_mode, reset_line,
                   frame, polls, stdout, ret>>

\* ResetLevel, had __init__ driven RESET' low
ResetLevelLow == "low"

\* The level __init__ drives RESET' to: gpio.HIGH
ResetLevel == "high"

\* init_Output, had __init__ not driven RESET' at all
init_OutputSkipped ==
    /\ pc = "init_output"
    /\ pc' = "init_write"
    /\ trace' = Append(trace, GpioOutput(RESET_PIN, ResetLevel))
    /\ UNCHANGED <<plot, call, ref_voltage, data_rate, bus_open, gpio_mode, reset_line,
                   drdy_line, frame, polls, stdout, ret>>

\* gpio.output (self._reset_pin, gpio.HIGH)
init_Output ==
    /\ pc = "init_output"
    /\ reset_line' = [reset_line EXCEPT !.level = ResetLevel]
    /\ trace' = Append(trace, GpioOutput(RESET_PIN, ResetLevel))
    /\ pc' = "init_write"
    /\ UNCHANGED <<plot, call, ref_voltage, data_rate, bus_open, gpio_mode, drdy_line,
                   frame, polls, stdout, ret>>

\* TurboHAT.CMD_WREG | (TurboHAT.REG_CFG_1 << 2)
Cfg1Command == BitOr(CMD_WREG, ShiftLeft(REG_CFG_1, 2))

\* Cfg1Payload, had the data rate been left out of the payload
Cfg1PayloadRefOnly(ref, rate) == ref

\* self._ref_voltage | self._data_rate
Cfg1Payload(ref, rate) == BitOr(ref, rate)

\* self._i2c_bus.write_byte_data (self._address, CMD_WREG | (REG_CFG_1 << 2), ...)
init_WriteCfg1 ==
    /\ pc = "init_write"
    /\ \E ok \in BusOutcomes :
        /\ trace' = Append(trace,
                        BusWrite(Cfg1Command, Cfg1Payload(ref_voltage, data_rate), ok))
        /\ pc' = IF ok THEN "idle" ELSE "failed"
        /\ ret' = IF ok THEN RetOk ELSE RetBusError
    /\ UNCHANGED <<plot, call, ref_voltage, data_rate, bus_open, gpio_mode, reset_line,
                   drdy_line, frame, polls, stdout>>

\* ------------------------------------------------------------------------
\* Calls on the constructed instance.  A call starts with a fresh frame; chan,
\* adc_data and reggie stay as the call left them until the next call, counter
\* and polls belong to the poll loop and restart at 0 when the call ends.

\* turbo.read_channel (c)
read_channel_Call(c) ==
    /\ pc = "idle"
    /\ call' = "read_channel"
    /\ chan' = c
    /\ counter' = 0
    /\ adc_data' = 0
    /\ trace' = << >>
    /\ polls' = 0
    /\ stdout' = << >>
    /\ ret' = RetNone
    /\ pc' = "rc_mux"
    /\ reggie' = 0
    /\ UNCHANGED <<plot, ref_voltage, data_rate, bus_open, gpio_mode, reset_line,
                   drdy_line>>

\* MuxCommand, had read_channel addressed configuration register 1
MuxCommandCfg1 == BitOr(CMD_WREG, ShiftLeft(REG_CFG_1, 2))

\* TurboHAT.CMD_WREG | (TurboHAT.REG_CFG_0 << 2)
MuxCommand == BitOr(CMD_WREG, ShiftLeft(REG_CFG_0, 2))

\* MuxPayload, had the channel not been masked to two bits
MuxPayloadNoMask(c) == ShiftLeft(BitOr(8, c), 4)

\* (0x08 | (chan & 0x03)) << 4
MuxPayload(c) == ShiftLeft(BitOr(8, BitAnd(c, 3)), 4)

\* read_channel_MuxWrite, had a failure of the write been swallowed
read_channel_MuxWriteSwallowed ==
    /\ pc = "rc_mux"
    /\ \E ok \in BusOutcomes :
        /\ trace' = Append(trace, BusWrite(MuxCommand, MuxPayload(chan), ok))
        /\ pc' = "rc_start"
        /\ ret' = ret
    /\ UNCHANGED <<plot, call, ref_voltage, data_rate, bus_open, gpio_mode, reset_line,
                   drdy_line, frame, polls, stdout>>

\* self._i2c_bus.write_byte_data (self._address, CMD_WREG | (REG_CFG_0 << 2), ...)
read_channel_MuxWrite ==
    /\ pc = "rc_mux"
    /\ \E ok \in BusOutcomes :
        /\ trace' = Append(trace, BusWrite(MuxCommand, MuxPayload(chan), ok))
        /\ pc' = IF ok THEN "rc_start" ELSE "idle"
        /\ ret' = IF ok THEN ret ELSE RetBusError
    /\ UNCHANGED <<plot, call, ref_voltage, data_rate, bus_open, gpio_mode, reset_line,
                   drdy_line, frame, polls, stdout>>

\* read_channel_StartSync, had a failed trigger been sent again
read_channel_StartSyncRetry ==
    /\ pc = "rc_start"
    /\ \E ok \in BusOutcomes :
        /\ trace' = Append(trace, BusCommand(CMD_START_SYNC, ok))
        /\ pc' = IF ok THEN "rc_poll" ELSE "rc_start"
        /\ ret' = ret
    /\ counter' = 0
    /\ UNCHANGED <<plot, call, ref_voltage, data_rate, bus_open, gpio_mode, reset_line,
                   drdy_line, chan, adc_data, reggie, polls, stdout>>

\* self._i2c_bus.write_byte (self._address, TurboHAT.CMD_START_SYNC); counter = 0
read_channel_StartSync ==
    /\ pc = "rc_start"
    /\ \E ok \in BusOutcomes :
        /\ trace' = Append(trace, BusCommand(CMD_START_SYNC, ok))
        /\ pc' = IF ok THEN "rc_poll" ELSE "idle"
        /\ ret' = IF ok THEN ret ELSE RetBusError
    /\ counter' = 0
    /\ UNCHANGED <<plot, call, ref_voltage, data_rate, bus_open, gpio_mode, reset_line,
                   drdy_line, chan, adc_data, reggie, polls, stdout>>

\* TimedOut, had the test been counter >= 100000
TimedOutAtLimit(c) == c >= POLL_LIMIT

\* if counter > 100000
TimedOut(c) == c > POLL_LIMIT

\* read_channel_Poll, had the counter been restarted where the code raises
read_channel_PollForever ==
    /\ pc = "rc_poll"
    /\ \E level \in {0, 1} :
        IF level = 1
        THEN IF TimedOut(counter + 1)
             THEN /\ counter' = 0
                  /\ polls' = 0
                  /\ pc' = "rc_poll"
                  /\ ret' = ret
             ELSE /\ counter' = counter + 1
                  /\ polls' = polls + 1
                  /\ pc' = "rc_poll"
                  /\ ret' = ret
        ELSE /\ counter' = counter
             /\ polls' = polls + 1
             /\ pc' = "rc_read"
             /\ ret' = ret
    /\ UNCHANGED <<plot, call, ref_voltage, data_rate, bus_open, gpio_mode, reset_line,
                   drdy_line, chan, adc_data, reggie, trace, stdout>>

\* One evaluation of the loop condition, gpio.input (self._drdy_pin), and, on a
\* high level, one pass of the loop body.  The raise ends the call.
read_channel_Poll ==
    /\ pc = "rc_poll"
    /\ \E level \in {0, 1} :
        IF level = 1
        THEN IF TimedOut(counter + 1)
             THEN /\ counter' = 0
                  /\ polls' = 0
                  /\ pc' = "idle"
                  /\ ret' = RetTimeout
             ELSE /\ counter' = counter + 1
                  /\ polls' = polls + 1
                  /\ pc' = "rc_poll"
                  /\ ret' = ret
        ELSE /\ counter' = counter
             /\ polls' = polls + 1
             /\ pc' = "rc_read"
             /\ ret' = ret
    /\ UNCHANGED <<plot, call, ref_voltage, data_rate, bus_open, gpio_mode, reset_line,
                   drdy_line, chan, adc_data, reggie, trace, stdout>>

\* ((adc_data & 0x00FF) << 8) | ((adc_data & 0xFF00) >> 8)
SwapBytes(w) == BitOr(ShiftLeft(BitAnd(w, 255), 8), ShiftRight(BitAnd(w, 65280), 8))

\* adc_data = self._i2c_bus.read_word_data (self._address, CMD_RDATA); return ...
read_channel_ReadData ==
    /\ pc = "rc_read"
    /\ \E ok \in BusOutcomes :
        IF ok
        THEN \E w \in RawWords :
                /\ trace' = Append(trace, BusReadWord(CMD_RDATA, w, TRUE))
                /\ adc_data' = w
                /\ ret' = RetValue(SwapBytes(w))
        ELSE /\ trace' = Append(trace, BusReadWord(CMD_RDATA, 0, FALSE))
             /\ adc_data' = adc_data
             /\ ret' = RetBusError
    /\ counter' = 0
    /\ polls' = 0
    /\ pc' = "idle"
    /\ UNCHANGED <<plot, call, ref_voltage, data_rate, bus_open, gpio_mode, reset_line,
                   drdy_line, chan, reggie, stdout>>

\* turbo.show_ADC_registers ()
show_ADC_registers_Call ==
    /\ pc = "idle"
    /\ call' = "show_ADC_registers"
    /\ reggie' = 0
    /\ trace' = << >>
    /\ polls' = 0
    /\ stdout' = << >>
    /\ ret' = RetNone
    /\ pc' = "show_read"
    /\ chan' = 0
    /\ adc_data' = 0
    /\ UNCHANGED <<plot, ref_voltage, data_rate, bus_open, gpio_mode, reset_line,
                   drdy_line, counter>>

\* ShowCommand, had the register index been shifted by one bit only
ShowCommandShiftOne(r) == BitOr(CMD_RDATA, ShiftLeft(r, 1))

\* TurboHAT.CMD_RDATA | (reggie << 2)
ShowCommand(r) == BitOr(CMD_RDATA, ShiftLeft(r, 2))

\* One pass of "for reggie in range (4)": read_byte_data, then print
show_ADC_registers_Read ==
    /\ pc = "show_read"
    /\ \E ok \in BusOutcomes :
        IF ok
        THEN \E data \in RegBytes :
                /\ trace' = Append(trace, BusReadByte(ShowCommand(reggie), data, TRUE))
                /\ stdout' = Append(stdout, <<reggie, data>>)
                /\ reggie' = IF reggie + 1 < NUM_REGS THEN reggie + 1 ELSE reggie
                /\ pc' = IF reggie + 1 < NUM_REGS THEN "show_read" ELSE "idle"
                /\ ret' = IF reggie + 1 < NUM_REGS THEN ret ELSE RetOk
        ELSE /\ trace' = Append(trace, BusReadByte(ShowCommand(reggie), 0, FALSE))
             /\ stdout' = stdout
             /\ reggie' = reggie
             /\ pc' = "idle"
             /\ ret' = RetBusError
    /\ UNCHANGED <<plot, call, ref_voltage, data_rate, bus_open, gpio_mode, reset_line,
                   drdy_line, chan, counter, adc_data, polls>>

\* turbo.clean_up ()
clean_up_Call ==
    /\ pc = "idle"
    /\ call' = "clean_up"
    /\ trace' = << >>
    /\ polls' = 0
    /\ stdout' = << >>
    /\ ret' = RetNone
    /\ pc' = "cu_gpio"
    /\ chan' = 0
    /\ adc_data' = 0
    /\ reggie' = 0
    /\ UNCHANGED <<plot, ref_voltage, data_rate, bus_open, gpio_mode, reset_line,
                   drdy_line, counter>>

\* gpio.cleanup (): every pin the program set up goes back to input, the
\* numbering mode is forgotten
clean_up_GpioCleanup ==
    /\ pc = "cu_gpio"
    /\ gpio_mode' = "unset"
    /\ reset_line' = IF reset_line.dir = "unset" THEN reset_line ELSE LineReleased
    /\ drdy_line' = IF drdy_line.dir = "unset" THEN drdy_line ELSE LineReleased
    /\ trace' = Append(trace, GpioCleanup)
    /\ pc' = "cu_close"
    /\ UNCHANGED <<plot, call, ref_voltage, data_rate, bus_open, frame, polls, stdout, ret>>

\* clean_up_Close, had clean_up left the bus handle open
clean_up_CloseSkipped ==
    /\ pc = "cu_close"
    /\ pc' = "idle"
    /\ ret' = RetOk
    /\ UNCHANGED <<plot, call, ref_voltage, data_rate, bus_open, gpio_mode, reset_line,
                   drdy_line, frame, trace, polls, stdout>>

\* self._i2c_bus.close ()
clean_up_Close ==
    /\ pc = "cu_close"
    /\ bus_open' = FALSE
    /\ trace' = Append(trace, BusClose)
    /\ pc' = "idle"
    /\ ret' = RetOk
    /\ UNCHANGED <<plot, call, ref_voltage, data_rate, gpio_mode, reset_line, drdy_line,
                   frame, polls, stdout>>

\* ------------------------------------------------------------------------
\* Specifications

Construct ==
    \/ init_SetupReset
    \/ init_SetupDrdy
    \/ init_Output
    \/ init_WriteCfg1

read_channel ==
    \/ read_channel_MuxWrite
    \/ read_channel_StartSync
    \/ read_channel_Poll
    \/ read_channel_ReadData

show_ADC_registers ==
    \/ show_ADC_registers_Call
    \/ show_ADC_registers_Read

clean_up ==
    \/ clean_up_Call
    \/ clean_up_GpioCleanup
    \/ clean_up_Close

\* The life of one driver instance, constructed with the default selectors
Next ==
    \/ Construct
    \/ \E c \in Channels : read_channel_Call(c)
    \/ read_channel
    \/ show_ADC_registers
    \/ clean_up

Spec == Init /\ [][Next]_vars

\* Construction with every pair of reference and data rate selectors
InitCtor == Fresh(RefVoltages, DataRates)

NextCtor == Construct

SpecCtor == InitCtor /\ [][NextCtor]_vars

\* The state a completed default construction leaves (the state of Spec after
\* init_WriteCfg1 has completed), and the multiplexer selection of read_channel
\* for every channel argument of WideChannels
Constructed ==
    /\ pc = "idle"
    /\ call = "init"
    /\ ref_voltage = VREF_SUP
    /\ data_rate = DR_20HZ
    /\ bus_open = TRUE
    /\ gpio_mode = "BCM"
    /\ reset_line = [dir |-> "out", level |-> ResetLevel, pull |-> "off"]
    /\ drdy_line = [dir |-> "in", level |-> "undef", pull |-> "up"]
    /\ chan = 0
    /\ counter = 0
    /\ adc_data = 0
    /\ reggie = 0
    /\ trace = << GpioSetup(RESET_PIN, "OUT", "PUD_OFF"),
                  GpioSetup(DRDY_PIN, "IN", "PUD_UP"),
                  GpioOutput(RESET_PIN, ResetLevel),
                  BusWrite(Cfg1Command, Cfg1Payload(VREF_SUP, DR_20HZ), TRUE) >>
    /\ polls = 0
    /\ stdout = << >>
    /\ ret = RetOk

InitMux == Constructed /\ NoProgram

NextMux ==
    \/ \E c \in WideChannels : read_channel_Call(c)
    \/ read_channel_MuxWrite

SpecMux == InitMux /\ [][NextMux]_vars

\* One read_channel (0) after another on the constructed instance, as in the
\* loop of main in turbo_hat.py.  The interpreter goes on executing the call it
\* is in: a bus call or a sleep that has been started returns or raises.
LoopChannels == {0}

NextRead ==
    \/ \E c \in LoopChannels : read_channel_Call(c)
    \/ read_channel

SpecRead == InitMux /\ [][NextRead]_vars /\ WF_vars(read_channel)

\* ------------------------------------------------------------------------
\* The plotting program, main of turboplot.py

\* data_period = 1.0, in seconds
DATA_PERIOD == 1

\* The readings of the clock, time.time () - start_time, in whole seconds
MaxTime == 2

Clock == 0 .. MaxTime

\* What window.read (timeout=1000) returns: the four buttons of the layout, the
\* closed window (sg.WIN_CLOSED) and the timeout key
Events == {"Clear", "Save Plots", "Save Data", "Exit", "WIN_CLOSED", "__TIMEOUT__"}

\* channels = [[0, 2], [1, 3]]
PlotChannels == << <<0, 2>>, <<1, 3>> >>

\* The number of channels of a tick: len (data) subplots of len (data[subplot])
PlotSize == 4

\* The indices of the two loops at place p of a tick (p = 0 .. PlotSize - 1)
SubplotAt(p) == (p \div 2) + 1

ChanAt(p) == (p % 2) + 1

\* channel_data *= calibrations[channel_number], every calibration being
\* 5.0 / 32768: the sample in units of 1 / 32768 V
Calibrate(v) == v * 5

\* del s[:-1]: everything but the last element goes; an empty list stays empty
\* and no IndexError is raised
DelAllButLast(s) == IF Len(s) = 0 THEN s ELSE << s[Len(s)] >>

\* What a call of read_channel on the constructed, open instance ends with:
\* the swapped word the converter sent, or one of the two exceptions
ReadChannelOutcomes ==
    {RetTimeout, RetBusError} \cup {RetValue(SwapBytes(w)) : w \in RawWords}

\* event, values = window.read (timeout=1000); if event == 'Exit' or event ==
\* sg.WIN_CLOSED: break
main_WindowRead ==
    /\ main_pc = "loop"
    /\ \E e \in Events :
        /\ event' = e
        /\ main_pc' = IF e \in {"Exit", "WIN_CLOSED"} THEN "cleanup" ELSE "clear"
    /\ UNCHANGED <<now_time, next_data_time, times, plot_data, tick_pos, tick_chans,
                   cleanups>>
    /\ UNCHANGED <<pc, call, ref_voltage, data_rate, bus_open, gpio_mode, reset_line,
                   drdy_line, frame, trace, polls, stdout, ret>>

\* main_Clear, had Clear emptied the time list only
main_ClearTimesOnly ==
    /\ main_pc = "clear"
    /\ IF event = "Clear"
       THEN /\ times' = DelAllButLast(times)
            /\ plot_data' = plot_data
       ELSE UNCHANGED <<times, plot_data>>
    /\ main_pc' = "branch"
    /\ UNCHANGED <<event, now_time, next_data_time, tick_pos, tick_chans, cleanups>>
    /\ UNCHANGED <<pc, call, ref_voltage, data_rate, bus_open, gpio_mode, reset_line,
                   drdy_line, frame, trace, polls, stdout, ret>>

\* if event == 'Clear': del times[:-1]; for subplot in data: for oneplot in
\* subplot: del oneplot[:-1]
main_Clear ==
    /\ main_pc = "clear"
    /\ IF event = "Clear"
       THEN /\ times' = DelAllButLast(times)
            /\ plot_data' = [s \in 1 .. 2 |->
                                [c \in 1 .. 2 |-> DelAllButLast(plot_data[s][c])]]
       ELSE UNCHANGED <<times, plot_data>>
    /\ main_pc' = "branch"
    /\ UNCHANGED <<event, now_time, next_data_time, tick_pos, tick_chans, cleanups>>
    /\ UNCHANGED <<pc, call, ref_voltage, data_rate, bus_open, gpio_mode, reset_line,
                   drdy_line, frame, trace, polls, stdout, ret>>

\* print_data reads channel[index] for every index of times: an IndexError if
\* a series is shorter than the time list
PrintDataFails ==
    \E s \in 1 .. 2 : \E c \in 1 .. 2 : Len(plot_data[s][c]) < Len(times)

\* if event == "Save Data": print_data (times, data); else: now_time =
\* time.time () - start_time; if now_time > next_data_time: next_data_time +=
\* data_period; times.append (time.time () - start_time).  The clock does not go
\* back, and the two readings of a tick are the same whole second.
main_SaveOrAcquire ==
    /\ main_pc = "branch"
    /\ IF event = "Save Data"
       THEN /\ main_pc' = IF PrintDataFails THEN "crashed" ELSE "loop"
            /\ UNCHANGED <<now_time, next_data_time, times, tick_pos, tick_chans>>
       ELSE \E t \in Clock :
                /\ t >= now_time
                /\ now_time' = t
                /\ IF t > next_data_time
                   THEN /\ next_data_time' = next_data_time + DATA_PERIOD
                        /\ times' = Append(times, t)
                        /\ tick_pos' = 0
                        /\ tick_chans' = << >>
                        /\ main_pc' = "acquire"
                   ELSE /\ main_pc' = "loop"
                        /\ UNCHANGED <<next_data_time, times, tick_pos, tick_chans>>
    /\ UNCHANGED <<event, plot_data, cleanups>>
    /\ UNCHANGED <<pc, call, ref_voltage, data_rate, bus_open, gpio_mode, reset_line,
                   drdy_line, frame, trace, polls, stdout, ret>>

\* One pass of the inner loop: channel_data = turbo.read_channel
\* (channel_number); channel_data *= calibrations[channel_number];
\* (data[subplot])[chan].append (channel_data).  No statement of main catches
\* the exception of a failed read: it leaves main.  After the last channel the
\* plots are drawn and the event loop starts over.
main_ReadChannel ==
    /\ main_pc = "acquire"
    /\ pc = "idle"
    /\ \E r \in ReadChannelOutcomes :
        /\ call' = "read_channel"
        /\ ret' = r
        /\ tick_chans' = Append(tick_chans, PlotChannels[SubplotAt(tick_pos)][ChanAt(tick_pos)])
        /\ IF r.kind = "value"
           THEN /\ plot_data' =
                      [plot_data EXCEPT ![SubplotAt(tick_pos)][ChanAt(tick_pos)] =
                          Append(@, Calibrate(r.value))]
                /\ tick_pos' = tick_pos + 1
                /\ main_pc' = IF tick_pos + 1 = PlotSize THEN "loop" ELSE "acquire"
           ELSE /\ main_pc' = "crashed"
                /\ UNCHANGED <<plot_data, tick_pos>>
    /\ UNCHANGED <<event, now_time, next_data_time, times, cleanups>>
    /\ UNCHANGED <<pc, ref_voltage, data_rate, bus_open, gpio_mode, reset_line,
                   drdy_line, frame, trace, polls, stdout>>

\* turbo.clean_up (); window.close (), after the break
main_CleanUp ==
    /\ main_pc = "cleanup"
    /\ pc = "idle"
    /\ call' = "clean_up"
    /\ ret' = RetOk
    /\ gpio_mode' = "unset"
    /\ reset_line' = LineReleased
    /\ drdy_line' = LineReleased
    /\ bus_open' = FALSE
    /\ cleanups' = cleanups + 1
    /\ main_pc' = "done"
    /\ UNCHANGED <<event, now_time, next_data_time, times, plot_data, tick_pos,
                   tick_chans>>
    /\ UNCHANGED <<pc, ref_voltage, data_rate, frame, trace, polls, stdout>>

\* main has built the driver and the window and enters the event loop
InitPlot ==
    /\ Constructed
    /\ main_pc = "loop"
    /\ event = "none"
    /\ now_time = 0
    /\ next_data_time = 0
    /\ times = << >>
    /\ plot_data = << << << >>, << >> >>, << << >>, << >> >> >>
    /\ tick_pos = 0
    /\ tick_chans = << >>
    /\ cleanups = 0

NextPlot ==
    \/ main_WindowRead
    \/ main_Clear
    \/ main_SaveOrAcquire
    \/ main_ReadChannel
    \/ main_CleanUp

SpecPlot == InitPlot /\ [][NextPlot]_vars

\* ------------------------------------------------------------------------
\* Properties

\* The calls a read_channel makes on the bus, in the order of the code
ReadChannelOps == << "write_byte_data", "write_byte", "read_word_data" >>
ReadChannelCmds == << 64, 8, 16 >>

ReadChannelOrder ==
    call = "read_channel" =>
        /\ Len(trace) <= 3
        /\ \A i \in 1 .. Len(trace) :
            /\ trace[i].op = ReadChannelOps[i]
            /\ trace[i].cmd = ReadChannelCmds[i]
        /\ polls > 0 => Len(trace) = 2

ReadChannelStep ==
    (call = "read_channel" /\ call' = "read_channel" /\ pc # "idle") =>
        /\ \/ trace' = trace
           \/ /\ Len(trace') = Len(trace) + 1
              /\ SubSeq(trace', 1, Len(trace)) = trace
              /\ polls' = polls \/ polls' = 0
        /\ polls' > polls => (polls' = polls + 1 /\ Len(trace) = 2)

\* C1: one read_channel call issues one register-0 write (command 0x40), then
\* one START/SYNC command (0x08), then only polls of DRDY', then at most one word
\* read at RDATA (0x10): the bus calls of the call are always a prefix of that
\* sequence, each step adds at most one call to it, and the line is polled only
\* between the trigger and the data read.
C1_ReadChannelSequence == [](ReadChannelOrder) /\ [][ReadChannelStep]_vars

\* A read_channel call that went through all of its steps
C1_Witness ==
    /\ call = "read_channel"
    /\ ret.kind = "value"
    /\ Len(trace) = 3
    /\ trace[3].op = "read_word_data"

\* C2 as amended: while the loop runs every poll so far has read high and at
\* most POLL_LIMIT of them were made; the poll that raises the Timeout is the
\* one after POLL_LIMIT high readings, the 100001st, and the call then ends
\* without a word read.
C2_TimeoutAfterLimitPlusOne ==
    /\ [](pc = "rc_poll" => (polls = counter /\ counter <= POLL_LIMIT))
    /\ [][(pc = "rc_poll" /\ ret'.kind = "Timeout") =>
            /\ counter = POLL_LIMIT
            /\ polls + 1 = POLL_LIMIT + 1
            /\ pc' = "idle"
            /\ \A i \in 1 .. Len(trace') : trace'[i].op # "read_word_data"]_vars

\* A read_channel call that ended with the Timeout
C2_Witness ==
    /\ call = "read_channel"
    /\ ret.kind = "Timeout"
    /\ pc = "idle"
    /\ Len(trace) = 2

\* C2 as stated: the poll that raises the Timeout is the POLL_LIMIT-th (the
\* 100000th consecutive high reading), and no word is read.
C2_TimeoutAtLimit ==
    [][(pc = "rc_poll" /\ ret'.kind = "Timeout") =>
            /\ polls + 1 = POLL_LIMIT
            /\ \A i \in 1 .. Len(trace') : trace'[i].op # "read_word_data"]_vars

\* The word w with its two bytes exchanged
ByteSwapped(w) == (w % 256) * 256 + (w \div 256)

\* The 16-bit word w read as a two's-complement number
Signed16(w) == IF w >= 32768 THEN w - 65536 ELSE w

\* C3: the value read_channel returns is the byte-swapped raw word read as a
\* signed 16-bit number, so that it lies in -32768 .. 32767.
C3_SignedSwappedResult ==
    (call = "read_channel" /\ ret.kind = "value") =>
        /\ ret.value = Signed16(ByteSwapped(adc_data))
        /\ ret.value \in -32768 .. 32767

\* C4: a construction issues exactly one bus transaction, the write of
\* ref_voltage | data_rate with command byte 0x44; none before its last step.
C4_OneConfigurationWrite ==
    call = "init" =>
        /\ pc \in {"init_setup_reset", "init_setup_drdy", "init_output", "init_write"}
              => BusOf(trace) = << >>
        /\ pc \in {"idle", "failed"} =>
              /\ Len(BusOf(trace)) = 1
              /\ BusOf(trace)[1].op = "write_byte_data"
              /\ BusOf(trace)[1].cmd = 68
              /\ BusOf(trace)[1].val = ref_voltage + data_rate
              /\ (ref_voltage = 4 /\ data_rate = 0) => BusOf(trace)[1].val = 4

\* A completed construction with the external reference at 1000 Hz: payload 0xC2
C4_Witness ==
    /\ call = "init"
    /\ pc = "idle"
    /\ ref_voltage = VREF_EXT
    /\ data_rate = DR_1000HZ
    /\ Len(BusOf(trace)) = 1
    /\ BusOf(trace)[1].val = 194

\* The RESET' line has not been driven high so far
ResetNotYetHigh ==
    \/ reset_line.dir = "unset"
    \/ reset_line.dir = "out" /\ reset_line.level # "high"

\* C5: the constructor sets RESET' up as an output, DRDY' as an input with
\* pull-up and drives RESET' high, in that order and before its bus write; no
\* bus transaction is issued in a state where RESET' has not yet been high.
C5_LinesBeforeBus ==
    /\ call = "init" =>
        /\ Len(trace) <= 4
        /\ Len(trace) >= 1 => trace[1] = GpioSetup(RESET_PIN, "OUT", "PUD_OFF")
        /\ Len(trace) >= 2 => trace[2] = GpioSetup(DRDY_PIN, "IN", "PUD_UP")
        /\ Len(trace) >= 3 => trace[3] = GpioOutput(RESET_PIN, "high")
        /\ Len(trace) >= 4 => IsBusTransaction(trace[4])
    /\ pc = "init_write" =>
        /\ reset_line.dir = "out" /\ reset_line.level = "high"
        /\ drdy_line.dir = "in" /\ drdy_line.pull = "up"
    /\ ResetNotYetHigh => (call = "init" /\ BusOf(trace) = << >>)

\* The first bus transaction has been issued, with the lines set up
C5_Witness ==
    /\ call = "init"
    /\ Len(trace) = 4
    /\ IsBusTransaction(trace[4])
    /\ reset_line.level = "high"
    /\ drdy_line.pull = "up"

\* C6: for every channel argument c the first call of read_channel is the
\* write of (0x8 | (c mod 4)) << 4 to register 0; no argument ends the call
\* before that write.
C6_MuxPayloadAliases ==
    call = "read_channel" =>
        /\ pc # "rc_mux" => Len(trace) >= 1
        /\ Len(trace) >= 1 =>
              /\ trace[1].op = "write_byte_data"
              /\ trace[1].cmd = 64
              /\ trace[1].val = (8 + (chan % 4)) * 16
              /\ trace[1].val % 16 = 0
              /\ trace[1].val \div 16 = 8 + (chan % 4)

\* read_channel (-1) has written 0xB0, the payload of channel 3
C6_Witness ==
    /\ call = "read_channel"
    /\ chan = -1
    /\ Len(trace) = 1
    /\ trace[1].val = 176

ShowOrder ==
    call = "show_ADC_registers" =>
        /\ Len(trace) <= 4
        /\ \A i \in 1 .. Len(trace) :
            /\ trace[i].op = "read_byte_data"
            /\ (trace[i].cmd \div 4) % 4 = i - 1
            /\ i < Len(trace) => trace[i].ok
        /\ Len(stdout) <= Len(trace)
        /\ \A i \in 1 .. Len(stdout) : stdout[i] = << i - 1, trace[i].val >>
        /\ (pc = "idle" /\ ret.kind = "ok") =>
              (Len(trace) = 4 /\ Len(stdout) = 4 /\ trace[4].ok)

ShowStep ==
    call' = "show_ADC_registers" =>
        /\ reset_line' = reset_line
        /\ drdy_line' = drdy_line
        /\ gpio_mode' = gpio_mode
        /\ bus_open' = bus_open

\* C7: show_ADC_registers issues byte reads only, for registers 0, 1, 2, 3 in
\* that order with the register index in bits 2-3 of the command byte; a dump
\* that completes has issued exactly four and printed the four bytes in that
\* order; no step of it changes a GPIO line or the bus handle.
C7_ShowReadsFourRegisters == [](ShowOrder) /\ [][ShowStep]_vars

\* A completed dump of the bytes 1, 2, 3, 4
C7_Witness ==
    /\ call = "show_ADC_registers"
    /\ pc = "idle"
    /\ ret.kind = "ok"
    /\ stdout = << <<0, 1>>, <<1, 2>>, <<2, 3>>, <<3, 4>> >>

\* C8: every command byte show_ADC_registers sends is 0010rrxx, the RREG
\* opcode 0x20 with the register index rr in bits 3,2.
C8_ShowUsesReadRegister ==
    call = "show_ADC_registers" =>
        \A i \in 1 .. Len(trace) :
            /\ trace[i].cmd \div 16 = CMD_RREG \div 16
            /\ (trace[i].cmd \div 4) % 4 = i - 1

\* C9: a read_channel call made after clean_up issues nothing: no multiplexer
\* write, no trigger, no poll, no data read.
C9_NoReadAfterCleanUp ==
    (call = "read_channel" /\ ~bus_open) => (trace = << >> /\ polls = 0)

\* C10: clean_up calls gpio.cleanup and then closes the bus, once each, and
\* issues no bus transaction; when it has returned both lines are released and
\* the handle is closed.
C10_CleanUpOrder ==
    call = "clean_up" =>
        /\ Len(trace) <= 2
        /\ Len(trace) >= 1 => trace[1] = GpioCleanup
        /\ Len(trace) >= 2 => trace[2] = BusClose
        /\ BusOf(trace) = << >>
        /\ pc = "idle" =>
              /\ Len(trace) = 2
              /\ ret.kind = "ok"
              /\ ~bus_open
              /\ reset_line = LineReleased
              /\ drdy_line = LineReleased

\* A clean_up that has returned
C10_Witness ==
    /\ call = "clean_up"
    /\ pc = "idle"
    /\ trace = << GpioCleanup, BusClose >>
    /\ ~bus_open

\* The instance is constructed and clean_up has not been called
InService ==
    /\ bus_open
    /\ \/ call = "init" /\ pc = "idle"
       \/ call \in {"read_channel", "show_ADC_registers"}

\* C11: from the return of the constructor to the call of clean_up the RESET'
\* line is an output at the high level, whatever read_channel and
\* show_ADC_registers calls are made and however they end; no step of those
\* two methods changes the line.
C11_ResetHeldHigh ==
    /\ [](InService => (reset_line.dir = "out" /\ reset_line.level = "high"))
    /\ [][call' \in {"read_channel", "show_ADC_registers"} =>
            reset_line' = reset_line]_vars

\* A read_channel call has timed out on an instance still in service
C11_Witness ==
    /\ InService
    /\ call = "read_channel"
    /\ ret.kind = "Timeout"
    /\ reset_line.level = "high"

\* The register a write_byte_data command byte addresses (bits 3,2)
RegisterOf(cmd) == (cmd \div 4) % 4

\* C12: the stored selectors never change, the constructor runs once and its
\* fourth call is the only write to register 1 there is; no call writes
\* register 2 or 3.
C12_Register1WrittenOnce ==
    /\ [](\A i \in 1 .. Len(trace) :
            trace[i].op = "write_byte_data" =>
                /\ RegisterOf(trace[i].cmd) \notin {2, 3}
                /\ RegisterOf(trace[i].cmd) = 1 => (call = "init" /\ i = 4))
    /\ []((call = "init" /\ pc \in {"idle", "failed"}) =>
            (Len(trace) = 4 /\ trace[4].op = "write_byte_data"
                /\ RegisterOf(trace[4].cmd) = 1))
    /\ [][/\ ref_voltage' = ref_voltage
          /\ data_rate' = data_rate
          /\ call' = "init" => call = "init"]_vars

\* A read_channel call has written register 0 and left the selectors alone
C12_Witness ==
    /\ call = "read_channel"
    /\ Len(trace) >= 1
    /\ trace[1].op = "write_byte_data"
    /\ RegisterOf(trace[1].cmd) = 0
    /\ ref_voltage = VREF_SUP
    /\ data_rate = DR_20HZ

ReadChannelFailed == call = "read_channel" /\ ret.kind \in {"BusError", "Timeout"}

\* C13: a bus call of read_channel that raises is the last call of it: the
\* call has ended with that failure, no value is returned and nothing follows
\* (no trigger, poll or data read after a failed multiplexer write, no poll or
\* data read after a failed trigger); a Timeout ends the call before the data
\* read; a value is returned only when all three bus calls completed.
C13_FailureEndsRead ==
    /\ [](call = "read_channel" =>
            /\ \A i \in 1 .. Len(trace) :
                  ~trace[i].ok =>
                      (i = Len(trace) /\ pc = "idle" /\ ret = RetBusError)
            /\ pc \in {"rc_poll", "rc_read"} =>
                  (Len(trace) = 2 /\ trace[1].ok /\ trace[2].ok)
            /\ ret.kind = "Timeout" => (pc = "idle" /\ Len(trace) = 2)
            /\ ret.kind = "BusError" =>
                  (pc = "idle" /\ Len(trace) >= 1 /\ ~trace[Len(trace)].ok)
            /\ ret.kind = "value" =>
                  (Len(trace) = 3 /\ \A i \in 1 .. 3 : trace[i].ok)
            /\ ret.kind # "value" => ret.value = 0)
    /\ [][ReadChannelFailed => (trace' = trace \/ trace' = << >>)]_vars

\* The multiplexer write of a read_channel call raised on an open bus
C13_Witness ==
    /\ call = "read_channel"
    /\ bus_open
    /\ Len(trace) = 1
    /\ ~trace[1].ok
    /\ ret = RetBusError

ReadChannelRunning == call = "read_channel" /\ pc # "idle"

ReadChannelEnded ==
    /\ call = "read_channel"
    /\ pc = "idle"
    /\ ret.kind \in {"value", "Timeout", "BusError"}

\* C14: every read_channel call ends, whatever DRDY' does: the loop never
\* makes more than POLL_LIMIT + 1 polls, a poll that reads low (the one after
\* the 100000th high reading included) leaves the loop for the data read, and
\* a call whose bus calls all completed ends with a value or with the Timeout.
C14_ReadChannelTerminates ==
    /\ ReadChannelRunning ~> ReadChannelEnded
    /\ [](pc = "rc_poll" => polls <= POLL_LIMIT)
    /\ [](pc = "rc_read" => polls <= POLL_LIMIT + 1)
    /\ []((ReadChannelEnded /\ \A i \in 1 .. Len(trace) : trace[i].ok) =>
            ret.kind \in {"value", "Timeout"})
    /\ [][(pc = "rc_poll" /\ counter' = counter /\ polls' = polls + 1) =>
            pc' = "rc_read"]_vars
    /\ [][(pc = "rc_read" /\ trace'[Len(trace')].ok) => ret'.kind = "value"]_vars

\* DRDY' read low on the poll after the 100000th high reading: the loop is
\* left for the data read
C14_Witness ==
    /\ call = "read_channel"
    /\ pc = "rc_read"
    /\ counter = POLL_LIMIT
    /\ polls = POLL_LIMIT + 1

\* The run of main is over: the loop was left by break and main returned, or an
\* exception left main
MainEnded == main_pc \in {"done", "crashed"}

\* C15: however the run of main of the plotting program ends (Exit, closed
\* window, or a read_channel call that fails), clean_up has been called exactly
\* once before the program ends.  The code calls clean_up after the loop only,
\* and an exception of read_channel leaves main without passing there.
C15_CleanUpOnceHoweverMainEnds == MainEnded => cleanups = 1

\* A call of read_channel made by the sampling loop ends with an exception
SampleReadFails ==
    /\ main_pc = "acquire"
    /\ call' = "read_channel"
    /\ ret'.kind \in {"Timeout", "BusError"}

\* C16: a read_channel call of the sampling loop that fails does not end the
\* loop: the program goes on with the event loop.  The code has no handler
\* around the call, so the step of the failing read ends main.
C16_FailedReadKeepsLoop ==
    [][SampleReadFails => main_pc' \in {"acquire", "loop"}]_vars

\* The last element of s alone, or nothing for an empty s
LastOnly(s) == SubSeq(s, IF Len(s) = 0 THEN 1 ELSE Len(s), Len(s))

\* Each of the four series is as long as the time list
SeriesMatchTimes ==
    \A s \in 1 .. 2 : \A c \in 1 .. 2 : Len(plot_data[s][c]) = Len(times)

\* C17: at the start of every event-loop iteration each of the four series has
\* as many samples as the time list; an acquisition tick appends one time and
\* reads channels 0, 2, 1, 3 once each, appending one sample to the series of
\* each; Clear truncates the time list and every series to the last element, or
\* leaves them empty.
C17_SeriesMatchTimes ==
    /\ [](main_pc = "loop" => SeriesMatchTimes)
    /\ [][(main_pc = "branch" /\ main_pc' = "acquire")
            => Len(times') = Len(times) + 1]_vars
    /\ [][(main_pc = "acquire" /\ main_pc' = "loop")
            => (tick_chans' = <<0, 2, 1, 3>> /\ SeriesMatchTimes')]_vars
    /\ [][(main_pc = "clear" /\ event = "Clear")
            => /\ times' = LastOnly(times)
               /\ \A s \in 1 .. 2 : \A c \in 1 .. 2 :
                    plot_data'[s][c] = LastOnly(plot_data[s][c])]_vars

\* An iteration starts after two ticks and a Clear that cut two elements to one
C17_Witness ==
    /\ main_pc = "loop"
    /\ event = "Clear"
    /\ next_data_time = 2
    /\ tick_chans = <<0, 2, 1, 3>>
    /\ Len(times) = 1
    /\ SeriesMatchTimes

====
